---------------------------- MODULE Spec2Model ----------------------------
(***************************************************************************)
(* Portfolio cost-basis tracker (src/App.tsx).                             *)
(*                                                                         *)
(* The React component's state is the set of VARIABLES; every event        *)
(* handler is one action; every useMemo derivation is an operator over     *)
(* the state.  JavaScript numbers are modelled as exact rationals          *)
(* [n, d] in lowest terms (d > 0), NaN as [n |-> 0, d |-> 0]; IEEE-754     *)
(* rounding is not modelled.  Text fields hold sequences of characters     *)
(* and are converted by parseFloat / toString as the code does.            *)
(***************************************************************************)
EXTENDS Integers, Sequences, FiniteSets, TLC

VARIABLES
    stockList,            \* useState<string[]>            App.tsx:10
    activeSymbol,         \* useState<string>              App.tsx:22
    transactions,         \* useState<Transaction[]>       App.tsx:31
    transactionType,      \* 'BUY' | 'SELL'                App.tsx:58
    inputPrice,           \* text of the price field       App.tsx:59
    inputQuantity,        \* text of the quantity field    App.tsx:60
    simulationPrice,      \* text of the simulation field  App.tsx:61
    targetAverageInput,   \* text of the target field      App.tsx:64
    backupTransactions,   \* null | [txs: Transaction[]]  App.tsx:67
    showUndoToast,        \* boolean                       App.tsx:68
    toastTimer,           \* time left on the pending setTimeout, or NoTimer
    now,                  \* Date.now()
    nextId                \* ids handed out so far (crypto.randomUUID is fresh)

storeVars == <<stockList, activeSymbol, transactions>>
inputVars == <<transactionType, inputPrice, inputQuantity, simulationPrice,
               targetAverageInput>>
undoVars  == <<backupTransactions, showUndoToast, toastTimer>>
vars      == <<stockList, activeSymbol, transactions, transactionType,
               inputPrice, inputQuantity, simulationPrice, targetAverageInput,
               backupTransactions, showUndoToast, toastTimer, now, nextId>>

---------------------------------------------------------------------------
(* Bounds of the model                                                     *)

\* Largest integer a text field is given (prices, quantities, targets).
MaxNum == 2
\* Number of transactions in a stored history / created in one run.
MaxTx == 2
\* Number of transactions of the history the simulation panel values.
MaxSimTx == 1
\* Number of portfolios in the list.
MaxStocks == 2
\* Last instant of the clock.
MaxTime == 5

---------------------------------------------------------------------------
(* JavaScript numbers as exact rationals                                   *)

null == [null |-> TRUE]

NaN == [n |-> 0, d |-> 0]

isNaN(x) == x.d = 0

Abs(i) == IF i < 0 THEN -i ELSE i

RECURSIVE GCD(_, _)
GCD(a, b) == IF b = 0 THEN a ELSE GCD(b, a % b)

\* The rational num/den in lowest terms with a positive denominator.
Rat(num, den) ==
    IF den = 0 THEN NaN
    ELSE LET g == GCD(Abs(num), Abs(den))
             s == IF den < 0 THEN -1 ELSE 1
         IN  [n |-> (s * num) \div g, d |-> (s * den) \div g]

Num(i) == [n |-> i, d |-> 1]

Zero == Num(0)

Hundred == Num(100)

Add(x, y) == IF isNaN(x) \/ isNaN(y) THEN NaN
             ELSE Rat(x.n * y.d + y.n * x.d, x.d * y.d)

Sub(x, y) == IF isNaN(x) \/ isNaN(y) THEN NaN
             ELSE Rat(x.n * y.d - y.n * x.d, x.d * y.d)

Mul(x, y) == IF isNaN(x) \/ isNaN(y) THEN NaN
             ELSE Rat(x.n * y.n, x.d * y.d)

\* x / y; a zero divisor is not reached by the code (every division is
\* guarded) and yields NaN here.
Div(x, y) == IF isNaN(x) \/ isNaN(y) THEN NaN
             ELSE Rat(x.n * y.d, x.d * y.n)

\* Comparisons with NaN are false, as in JavaScript.
Lt(x, y) == ~isNaN(x) /\ ~isNaN(y) /\ x.n * y.d < y.n * x.d

Le(x, y) == ~isNaN(x) /\ ~isNaN(y) /\ x.n * y.d <= y.n * x.d

Gt(x, y) == Lt(y, x)

Ge(x, y) == Le(y, x)

\* Math.max(0, x)
Max0(x) == IF isNaN(x) THEN NaN ELSE IF Lt(x, Zero) THEN Zero ELSE x

---------------------------------------------------------------------------
(* Text fields: parseFloat and Number.prototype.toString                   *)

Digits == <<"0", "1", "2", "3", "4", "5", "6", "7", "8", "9">>

IsDigit(c) == \E k \in 1..10 : Digits[k] = c

DigitVal(c) == (CHOOSE k \in 1..10 : Digits[k] = c) - 1

RECURSIVE Pow10(_)
Pow10(k) == IF k = 0 THEN 1 ELSE 10 * Pow10(k - 1)

\* Index of the first position >= i of s that holds no digit.
RECURSIVE ScanDigits(_, _)
ScanDigits(s, i) ==
    IF i <= Len(s) /\ IsDigit(s[i]) THEN ScanDigits(s, i + 1) ELSE i

\* Index of the first position >= i of s that holds no white space.
RECURSIVE SkipSpace(_, _)
SkipSpace(s, i) ==
    IF i <= Len(s) /\ s[i] = " " THEN SkipSpace(s, i + 1) ELSE i

\* The natural number written by the digits s[i] .. s[j-1] (0 when i = j).
RECURSIVE DigitsValue(_, _, _)
DigitsValue(s, i, j) ==
    IF i >= j THEN 0
    ELSE 10 * DigitsValue(s, i, j - 1) + DigitVal(s[j - 1])

\* parseFloat(s): leading white space, an optional sign, digits, an
\* optional fraction; the longest such prefix is converted and what follows
\* is ignored; NaN when the prefix holds no digit.  (Exponents and
\* "Infinity" are not produced by the fields and are not modelled.)
parseFloat(s) ==
    LET a    == SkipSpace(s, 1)
        neg  == a <= Len(s) /\ s[a] = "-"
        b    == IF a <= Len(s) /\ s[a] \in {"-", "+"} THEN a + 1 ELSE a
        c    == ScanDigits(s, b)
        dot  == c <= Len(s) /\ s[c] = "."
        e    == IF dot THEN ScanDigits(s, c + 1) ELSE c
        fLen == IF dot THEN e - (c + 1) ELSE 0
        int  == DigitsValue(s, b, c)
        frac == IF dot THEN DigitsValue(s, c + 1, e) ELSE 0
        mag  == Rat(int * Pow10(fLen) + frac, Pow10(fLen))
    IN  IF c = b /\ fLen = 0 THEN NaN
        ELSE IF neg THEN Sub(Zero, mag) ELSE mag

\* The decimal digits of a natural number.
RECURSIVE NatToString(_)
NatToString(k) ==
    IF k < 10 THEN <<Digits[k + 1]>>
    ELSE NatToString(k \div 10) \o <<Digits[(k % 10) + 1]>>

\* The fraction digits of r/d (0 <= r < d), d dividing a power of ten.
RECURSIVE FracToString(_, _)
FracToString(r, d) ==
    IF r = 0 THEN <<>>
    ELSE <<Digits[((10 * r) \div d) + 1]>> \o FracToString((10 * r) % d, d)

\* x.toString() for a number with a finite decimal expansion.
toString(x) ==
    LET m    == Abs(x.n)
        sign == IF x.n < 0 THEN <<"-">> ELSE <<>>
        frac == FracToString(m % x.d, x.d)
    IN  IF isNaN(x) THEN <<"N", "a", "N">>
        ELSE sign \o NatToString(m \div x.d)
                  \o (IF frac = <<>> THEN <<>> ELSE <<".">> \o frac)

---------------------------------------------------------------------------
(* Derived state: the useMemo computations                                 *)

\* Array.prototype.sort((a, b) => a.timestamp - b.timestamp): stable, so
\* transactions with equal timestamps keep their stored order.
RECURSIVE InsertByTimestamp(_, _)
InsertByTimestamp(sorted, t) ==
    IF sorted = <<>> THEN <<t>>
    ELSE IF sorted[Len(sorted)].timestamp <= t.timestamp
         THEN Append(sorted, t)
         ELSE Append(InsertByTimestamp(SubSeq(sorted, 1, Len(sorted) - 1), t),
                     sorted[Len(sorted)])

RECURSIVE SortByTimestamp(_)
SortByTimestamp(s) ==
    IF s = <<>> THEN <<>>
    ELSE InsertByTimestamp(SortByTimestamp(SubSeq(s, 1, Len(s) - 1)), s[Len(s)])

\* The transactions of one portfolio in timestamp order.
currentTransactionsOf(txs, symbol) ==
    SortByTimestamp(SelectSeq(txs, LAMBDA t : t.symbol = symbol))

currentTransactions == currentTransactionsOf(transactions, activeSymbol)

\* StatsStep with the cost basis of a sale taken to be the whole running
\* cost instead of the sold share of it.
StatsStepWholeCost(acc, t) ==
    LET isActive       == t.isActive # FALSE
        currentAvgCost == IF Gt(acc.qty, Zero) THEN Div(acc.cost, acc.qty)
                          ELSE Zero
        costBasis      == acc.cost
        saleProceeds   == Mul(t.quantity, t.price)
        realize        == isActive /\ t.type # "BUY" /\ Gt(acc.qty, Zero)
        qty1  == IF ~isActive THEN acc.qty
                 ELSE IF t.type = "BUY" THEN Add(acc.qty, t.quantity)
                 ELSE Sub(acc.qty, t.quantity)
        cost1 == IF ~isActive THEN acc.cost
                 ELSE IF t.type = "BUY"
                      THEN Add(acc.cost, Mul(t.price, t.quantity))
                 ELSE IF Gt(acc.qty, Zero) THEN Sub(acc.cost, costBasis)
                 ELSE Sub(acc.cost, Mul(t.price, t.quantity))
    IN  [qty  |-> Max0(qty1),
         cost |-> Max0(cost1),
         realizedPL |-> IF realize THEN Sub(saleProceeds, costBasis) ELSE null,
         realizedPLPercent |->
             IF realize /\ Gt(currentAvgCost, Zero)
             THEN Mul(Div(Sub(t.price, currentAvgCost), currentAvgCost), Hundred)
             ELSE Zero]

\* StatsStep without the test of the running quantity: every active sale
\* realizes a figure, a sale from an empty position too.
StatsStepNoBasisGuard(acc, t) ==
    LET isActive       == t.isActive # FALSE
        currentAvgCost == IF Gt(acc.qty, Zero) THEN Div(acc.cost, acc.qty)
                          ELSE Zero
        costBasis      == Mul(t.quantity, currentAvgCost)
        saleProceeds   == Mul(t.quantity, t.price)
        realize        == isActive /\ t.type # "BUY"
        qty1  == IF ~isActive THEN acc.qty
                 ELSE IF t.type = "BUY" THEN Add(acc.qty, t.quantity)
                 ELSE Sub(acc.qty, t.quantity)
        cost1 == IF ~isActive THEN acc.cost
                 ELSE IF t.type = "BUY"
                      THEN Add(acc.cost, Mul(t.price, t.quantity))
                 ELSE Sub(acc.cost, costBasis)
    IN  [qty  |-> Max0(qty1),
         cost |-> Max0(cost1),
         realizedPL |-> IF realize THEN Sub(saleProceeds, costBasis) ELSE null,
         realizedPLPercent |->
             IF realize /\ Gt(currentAvgCost, Zero)
             THEN Mul(Div(Sub(t.price, currentAvgCost), currentAvgCost), Hundred)
             ELSE Zero]

\* One iteration of the map callback of transactionsWithStats, on the
\* running totals acc = [qty, cost]: the totals after the transaction and
\* the two figures attached to it.
StatsStep(acc, t) ==
    LET isActive       == t.isActive # FALSE
        currentAvgCost == IF Gt(acc.qty, Zero) THEN Div(acc.cost, acc.qty)
                          ELSE Zero
        costBasis      == Mul(t.quantity, currentAvgCost)
        saleProceeds   == Mul(t.quantity, t.price)
        realize        == isActive /\ t.type # "BUY" /\ Gt(acc.qty, Zero)
        qty1  == IF ~isActive THEN acc.qty
                 ELSE IF t.type = "BUY" THEN Add(acc.qty, t.quantity)
                 ELSE Sub(acc.qty, t.quantity)
        cost1 == IF ~isActive THEN acc.cost
                 ELSE IF t.type = "BUY"
                      THEN Add(acc.cost, Mul(t.price, t.quantity))
                 ELSE IF Gt(acc.qty, Zero) THEN Sub(acc.cost, costBasis)
                 ELSE Sub(acc.cost, Mul(t.price, t.quantity))
    IN  [qty  |-> Max0(qty1),
         cost |-> Max0(cost1),
         realizedPL |-> IF realize THEN Sub(saleProceeds, costBasis) ELSE null,
         realizedPLPercent |->
             IF realize /\ Gt(currentAvgCost, Zero)
             THEN Mul(Div(Sub(t.price, currentAvgCost), currentAvgCost), Hundred)
             ELSE Zero]

\* The running totals of transactionsWithStats after the first k entries.
RECURSIVE StatsRun(_, _)
StatsRun(cur, k) ==
    IF k = 0 THEN [qty |-> Zero, cost |-> Zero]
    ELSE LET r == StatsStep(StatsRun(cur, k - 1), cur[k])
         IN  [qty |-> r.qty, cost |-> r.cost]

\* transactionsWithStats: every transaction with its realized figures.
transactionsWithStatsOf(cur) ==
    [k \in 1..Len(cur) |->
        LET r == StatsStep(StatsRun(cur, k - 1), cur[k])
        IN  [t |-> cur[k], realizedPL |-> r.realizedPL,
             realizedPLPercent |-> r.realizedPLPercent]]

transactionsWithStats == transactionsWithStatsOf(currentTransactions)

\* SummaryStep with every sale booked at its own price, as the branch for
\* an empty position does.
SummaryStepAtSalePrice(acc, t) ==
    IF t.type = "BUY"
    THEN [qty  |-> Add(acc.qty, t.quantity),
          cost |-> Add(acc.cost, Mul(t.price, t.quantity))]
    ELSE [qty  |-> Sub(acc.qty, t.quantity),
          cost |-> Sub(acc.cost, Mul(t.price, t.quantity))]

\* SummaryStep with a purchase adding its price, not price * quantity.
SummaryStepBuyAddsPrice(acc, t) ==
    IF t.type = "BUY"
    THEN [qty  |-> Add(acc.qty, t.quantity),
          cost |-> Add(acc.cost, t.price)]
    ELSE IF Gt(acc.qty, Zero)
         THEN LET avgCost == Div(acc.cost, acc.qty)
                  qty1    == Sub(acc.qty, t.quantity)
              IN  [qty |-> qty1, cost |-> Mul(qty1, avgCost)]
         ELSE [qty  |-> Sub(acc.qty, t.quantity),
               cost |-> Sub(acc.cost, Mul(t.price, t.quantity))]

\* One iteration of the for loop of summary on acc = [qty, cost].
SummaryStep(acc, t) ==
    IF t.type = "BUY"
    THEN [qty  |-> Add(acc.qty, t.quantity),
          cost |-> Add(acc.cost, Mul(t.price, t.quantity))]
    ELSE IF Gt(acc.qty, Zero)
         THEN LET avgCost == Div(acc.cost, acc.qty)
                  qty1    == Sub(acc.qty, t.quantity)
              IN  [qty |-> qty1, cost |-> Mul(qty1, avgCost)]
         ELSE [qty  |-> Sub(acc.qty, t.quantity),
               cost |-> Sub(acc.cost, Mul(t.price, t.quantity))]

\* currentQty and currentTotalCost after the first k active transactions.
RECURSIVE SummaryRun(_, _)
SummaryRun(activeTx, k) ==
    IF k = 0 THEN [qty |-> Zero, cost |-> Zero]
    ELSE SummaryStep(SummaryRun(activeTx, k - 1), activeTx[k])

\* SummaryResult without the two Math.max(0, ...).
SummaryResultNoClamp(acc) ==
    [totalQuantity |-> acc.qty, totalCost |-> acc.cost,
     averageCost |-> IF Gt(acc.qty, Zero) THEN Div(acc.cost, acc.qty) ELSE Zero]

\* The clamp and the average that follow the loop of summary.
SummaryResult(acc) ==
    LET currentQty       == Max0(acc.qty)
        currentTotalCost == Max0(acc.cost)
        avg == IF Gt(currentQty, Zero) THEN Div(currentTotalCost, currentQty)
               ELSE Zero
    IN  [totalQuantity |-> currentQty, totalCost |-> currentTotalCost,
         averageCost |-> avg]

\* ActiveOnly without the filter.
ActiveOnlyAll(cur) == cur

\* The filter of summary: the transactions that are not inactive.
ActiveOnly(cur) == SelectSeq(cur, LAMBDA t : t.isActive # FALSE)

\* summary: the position of the active transactions of one portfolio.
summaryOf(cur) ==
    LET activeTx == ActiveOnly(cur)
    IN  IF Len(activeTx) = 0
        THEN [totalQuantity |-> Zero, totalCost |-> Zero, averageCost |-> Zero]
        ELSE SummaryResult(SummaryRun(activeTx, Len(activeTx)))

summary == summaryOf(currentTransactions)

\* previewOf with a sale taking price * quantity out of the cost.
previewSellAtSalePrice(ty, p, q, pos) ==
    IF isNaN(p) \/ isNaN(q) \/ Le(p, Zero) \/ Le(q, Zero) THEN null
    ELSE LET currentQ   == pos.totalQuantity
             currentC   == pos.totalCost
             currentAvg == pos.averageCost
             futureQ == IF ty = "BUY" THEN Add(currentQ, q)
                        ELSE Max0(Sub(currentQ, q))
             futureC == IF ty = "BUY" THEN Add(currentC, Mul(p, q))
                        ELSE Max0(Sub(currentC, Mul(p, q)))
             estimatedRealizedPL == Mul(Sub(p, currentAvg), q)
             futureAvg == IF Gt(futureQ, Zero) THEN Div(futureC, futureQ)
                          ELSE Zero
         IN  [newAvg  |-> futureAvg,
              diff    |-> Sub(futureAvg, currentAvg),
              isFirst |-> (currentQ = Zero),
              estimatedRealizedPL |->
                  IF ty = "SELL" THEN estimatedRealizedPL ELSE null]

\* previewData on parsed inputs: the effect of one more transaction of
\* type ty, price p and quantity q on the position pos.
previewOf(ty, p, q, pos) ==
    IF isNaN(p) \/ isNaN(q) \/ Le(p, Zero) \/ Le(q, Zero) THEN null
    ELSE LET currentQ   == pos.totalQuantity
             currentC   == pos.totalCost
             currentAvg == pos.averageCost
             futureQ == IF ty = "BUY" THEN Add(currentQ, q)
                        ELSE Max0(Sub(currentQ, q))
             futureC == IF ty = "BUY" THEN Add(currentC, Mul(p, q))
                        ELSE Mul(futureQ, currentAvg)
             estimatedRealizedPL == Mul(Sub(p, currentAvg), q)
             futureAvg == IF Gt(futureQ, Zero) THEN Div(futureC, futureQ)
                          ELSE Zero
         IN  [newAvg  |-> futureAvg,
              diff    |-> Sub(futureAvg, currentAvg),
              isFirst |-> (currentQ = Zero),
              estimatedRealizedPL |->
                  IF ty = "SELL" THEN estimatedRealizedPL ELSE null]

previewData ==
    previewOf(transactionType, parseFloat(inputPrice),
              parseFloat(inputQuantity), summary)

\* simulationOf with a break-even position reported as a profit.
simulationBreakEvenProfit(simText, pos) ==
    IF simText = <<>> \/ pos.totalQuantity = Zero THEN null
    ELSE LET currentP == parseFloat(simText)
             currentVal == Mul(currentP, pos.totalQuantity)
             plTotal    == Sub(currentVal, pos.totalCost)
             plPerShare == Sub(currentP, pos.averageCost)
             pctChange  == IF Gt(pos.averageCost, Zero)
                           THEN Mul(Div(plPerShare, pos.averageCost), Hundred)
                           ELSE Zero
         IN  IF isNaN(currentP) THEN null
             ELSE [currentValue |-> currentVal,
                   profitOrLossTotal |-> plTotal,
                   profitOrLossPerShare |-> plPerShare,
                   percentageChange |-> pctChange,
                   status |-> IF Ge(plTotal, Zero) THEN "PROFIT" ELSE "LOSS"]

\* simulation: the position pos valued at the price typed in simText.
simulationOf(simText, pos) ==
    IF simText = <<>> \/ pos.totalQuantity = Zero THEN null
    ELSE LET currentP == parseFloat(simText)
             currentVal == Mul(currentP, pos.totalQuantity)
             plTotal    == Sub(currentVal, pos.totalCost)
             plPerShare == Sub(currentP, pos.averageCost)
             pctChange  == IF Gt(pos.averageCost, Zero)
                           THEN Mul(Div(plPerShare, pos.averageCost), Hundred)
                           ELSE Zero
         IN  IF isNaN(currentP) THEN null
             ELSE [currentValue |-> currentVal,
                   profitOrLossTotal |-> plTotal,
                   profitOrLossPerShare |-> plPerShare,
                   percentageChange |-> pctChange,
                   status |-> IF Gt(plTotal, Zero) THEN "PROFIT"
                              ELSE IF Lt(plTotal, Zero) THEN "LOSS"
                              ELSE "NEUTRAL"]

simulation == simulationOf(simulationPrice, summary)

\* The two error texts of costAveragingData (App.tsx:270 and 274, in ASCII).
ErrTargetNotAbovePrice == [text |-> "Hedef > Anlik Fiyat"]

ErrTargetNotBelowAverage == [text |-> "Hedef < Ort. Maliyet"]

\* costAveragingDataOf without the test of the target against the
\* simulated price.
costAveragingNoPriceTest(sim, targetText, simText, pos) ==
    IF sim = null THEN null
    ELSE IF sim.status # "LOSS" \/ targetText = <<>> THEN null
    ELSE LET targetAvg == parseFloat(targetText)
             simPrice  == parseFloat(simText)
             requiredQty ==
                 Div(Mul(pos.totalQuantity, Sub(pos.averageCost, targetAvg)),
                     Sub(targetAvg, simPrice))
         IN  IF isNaN(targetAvg) \/ Le(targetAvg, Zero) THEN null
             ELSE IF Ge(targetAvg, pos.averageCost)
                  THEN [error |-> ErrTargetNotBelowAverage]
             ELSE [requiredQty |-> requiredQty,
                   requiredCapital |-> Mul(requiredQty, simPrice),
                   error |-> null]

\* costAveragingDataOf with the two tests strict: a target equal to the
\* simulated price or to the average cost is let through.
costAveragingStrictTests(sim, targetText, simText, pos) ==
    IF sim = null THEN null
    ELSE IF sim.status # "LOSS" \/ targetText = <<>> THEN null
    ELSE LET targetAvg == parseFloat(targetText)
             simPrice  == parseFloat(simText)
             requiredQty ==
                 Div(Mul(pos.totalQuantity, Sub(pos.averageCost, targetAvg)),
                     Sub(targetAvg, simPrice))
         IN  IF isNaN(targetAvg) \/ Le(targetAvg, Zero) THEN null
             ELSE IF Lt(targetAvg, simPrice)
                  THEN [error |-> ErrTargetNotAbovePrice]
             ELSE IF Gt(targetAvg, pos.averageCost)
                  THEN [error |-> ErrTargetNotBelowAverage]
             ELSE [requiredQty |-> requiredQty,
                   requiredCapital |-> Mul(requiredQty, simPrice),
                   error |-> null]

\* costAveragingData: the quantity to buy at the simulated price that
\* brings the average cost of pos down to the target typed in targetText.
costAveragingDataOf(sim, targetText, simText, pos) ==
    IF sim = null THEN null
    ELSE IF sim.status # "LOSS" \/ targetText = <<>> THEN null
    ELSE LET targetAvg == parseFloat(targetText)
             simPrice  == parseFloat(simText)
             requiredQty ==
                 Div(Mul(pos.totalQuantity, Sub(pos.averageCost, targetAvg)),
                     Sub(targetAvg, simPrice))
         IN  IF isNaN(targetAvg) \/ Le(targetAvg, Zero) THEN null
             ELSE IF Le(targetAvg, simPrice)
                  THEN [error |-> ErrTargetNotAbovePrice]
             ELSE IF Ge(targetAvg, pos.averageCost)
                  THEN [error |-> ErrTargetNotBelowAverage]
             ELSE [requiredQty |-> requiredQty,
                   requiredCapital |-> Mul(requiredQty, simPrice),
                   error |-> null]

costAveragingData ==
    costAveragingDataOf(simulation, targetAverageInput, simulationPrice, summary)

---------------------------------------------------------------------------
(* Portfolio names: String.prototype.toUpperCase and trim                  *)

LowerCase == <<"a", "b", "c", "d", "e", "f", "g", "h", "i", "j", "k", "l", "m",
               "n", "o", "p", "q", "r", "s", "t", "u", "v", "w", "x", "y", "z">>

UpperCase == <<"A", "B", "C", "D", "E", "F", "G", "H", "I", "J", "K", "L", "M",
               "N", "O", "P", "Q", "R", "S", "T", "U", "V", "W", "X", "Y", "Z">>

toUpperCase(s) ==
    [i \in 1..Len(s) |->
        IF \E k \in 1..26 : LowerCase[k] = s[i]
        THEN UpperCase[CHOOSE k \in 1..26 : LowerCase[k] = s[i]]
        ELSE s[i]]

RECURSIVE trimEnd(_)
trimEnd(s) ==
    IF s # <<>> /\ s[Len(s)] = " " THEN trimEnd(SubSeq(s, 1, Len(s) - 1)) ELSE s

trim(s) == trimEnd(SubSeq(s, SkipSpace(s, 1), Len(s)))

includes(list, x) == \E i \in 1..Len(list) : list[i] = x

GENEL == <<"G", "E", "N", "E", "L">>

---------------------------------------------------------------------------
(* Inputs                                                                  *)

\* What the price and quantity fields are given: nothing, a negative
\* number, zero, and the positive integers up to MaxNum.
PriceTexts == {<<>>} \cup {toString(Num(i)) : i \in (-1)..MaxNum}

\* What the simulation and target fields are given: the same, and the
\* halves in between.
TargetTexts == PriceTexts \cup {toString(Rat(2 * i + 1, 2)) : i \in 0..(MaxNum - 1)}

\* What the portfolio name fields are given.
NameTexts == {<<>>, <<" ">>, GENEL, <<"a">>, <<" ", "A", " ">>, <<"b">>}

NoTimer == -1

\* The delay of the toast timer, in clock units of 1000 ms.
ToastDelay == 5

---------------------------------------------------------------------------
(* Initial state                                                           *)

\* Nothing saved in localStorage: one portfolio, no transactions.
Init ==
    /\ stockList = <<GENEL>>
    /\ activeSymbol = GENEL
    /\ transactions = <<>>
    /\ transactionType = "BUY"
    /\ inputPrice = <<>>
    /\ inputQuantity = <<>>
    /\ simulationPrice = <<>>
    /\ targetAverageInput = <<>>
    /\ backupTransactions = null
    /\ showUndoToast = FALSE
    /\ toastTimer = NoTimer
    /\ now = 0
    /\ nextId = 0

---------------------------------------------------------------------------
(* Field handlers                                                          *)

\* onChange of the price field.
setInputPrice(text) ==
    /\ inputPrice' = text
    /\ UNCHANGED <<storeVars, undoVars, now, nextId, transactionType,
                   inputQuantity, simulationPrice, targetAverageInput>>

\* onChange of the quantity field.
setInputQuantity(text) ==
    /\ inputQuantity' = text
    /\ UNCHANGED <<storeVars, undoVars, now, nextId, transactionType,
                   inputPrice, simulationPrice, targetAverageInput>>

\* onClick of the BUY / SELL buttons.
setTransactionType(ty) ==
    /\ transactionType' = ty
    /\ UNCHANGED <<storeVars, undoVars, now, nextId, inputPrice,
                   inputQuantity, simulationPrice, targetAverageInput>>

\* onChange of the simulation price field; it also empties the target.
setSimulationPrice(text) ==
    /\ simulationPrice' = text
    /\ targetAverageInput' = <<>>
    /\ UNCHANGED <<storeVars, undoVars, now, nextId, transactionType,
                   inputPrice, inputQuantity>>

\* onClick of the clear button, shown while the simulation field is filled.
clearSimulationPrice ==
    /\ simulationPrice # <<>>
    /\ simulationPrice' = <<>>
    /\ targetAverageInput' = <<>>
    /\ UNCHANGED <<storeVars, undoVars, now, nextId, transactionType,
                   inputPrice, inputQuantity>>

\* onChange of the target field, which is rendered only while the
\* simulation shows a loss.
setTargetAverageInput(text) ==
    /\ simulation # null
    /\ simulation.status = "LOSS"
    /\ targetAverageInput' = text
    /\ UNCHANGED <<storeVars, undoVars, now, nextId, transactionType,
                   inputPrice, inputQuantity, simulationPrice>>

---------------------------------------------------------------------------
(* Portfolio handlers                                                      *)

\* onClick of a portfolio tab.
selectStock(stock) ==
    /\ includes(stockList, stock)
    /\ activeSymbol' = stock
    /\ simulationPrice' = <<>>
    /\ targetAverageInput' = <<>>
    /\ UNCHANGED <<stockList, transactions, undoVars, now, nextId,
                   transactionType, inputPrice, inputQuantity>>

\* An early return: the portfolio list, the store and the active symbol as
\* they are, with the flag of an alert raised or not.
Kept(alert) ==
    [stockList |-> stockList, transactions |-> transactions,
     activeSymbol |-> activeSymbol, alert |-> alert, done |-> FALSE]

\* AddStockResult appending the name whether or not the list has it.
AddStockAlways(newStockName) ==
    IF trim(newStockName) = <<>> THEN Kept(FALSE)
    ELSE LET name == trim(toUpperCase(newStockName))
         IN  [stockList |-> Append(stockList, name),
              transactions |-> transactions,
              activeSymbol |-> name, alert |-> FALSE, done |-> TRUE]

\* What handleAddStock stores for newStockName typed as text: a name not
\* yet in the list is appended, and the name becomes the active symbol.
AddStockResult(newStockName) ==
    IF trim(newStockName) = <<>> THEN Kept(FALSE)
    ELSE LET name == trim(toUpperCase(newStockName))
         IN  [stockList |-> IF includes(stockList, name) THEN stockList
                            ELSE Append(stockList, name),
              transactions |-> transactions,
              activeSymbol |-> name, alert |-> FALSE, done |-> TRUE]

\* handleAddStock with newStockName typed as text.
handleAddStock(newStockName) ==
    /\ AddStockResult(newStockName).done
    /\ stockList' = AddStockResult(newStockName).stockList
    /\ activeSymbol' = AddStockResult(newStockName).activeSymbol
    /\ simulationPrice' = <<>>
    /\ inputPrice' = <<>>
    /\ inputQuantity' = <<>>
    /\ targetAverageInput' = <<>>
    /\ UNCHANGED <<transactions, undoVars, now, nextId, transactionType>>

\* The list and the store after the active portfolio is renamed newName.
RenamedTo(newName) ==
    [stockList |-> [i \in 1..Len(stockList) |->
                       IF stockList[i] = activeSymbol THEN newName
                       ELSE stockList[i]],
     transactions |-> [i \in 1..Len(transactions) |->
                          IF transactions[i].symbol = activeSymbol
                          THEN [transactions[i] EXCEPT !.symbol = newName]
                          ELSE transactions[i]],
     activeSymbol |-> newName, alert |-> FALSE, done |-> TRUE]

\* RenameResult renaming the list and the active symbol only.
RenameListOnly(renameValue) ==
    LET newName == trim(toUpperCase(renameValue))
    IN  IF newName = <<>> THEN Kept(FALSE)
        ELSE IF newName = activeSymbol THEN Kept(FALSE)
        ELSE IF includes(stockList, newName) THEN Kept(TRUE)
        ELSE [RenamedTo(newName) EXCEPT !.transactions = transactions]

\* RenameResult testing the list before the unchanged name.
RenameCollisionFirst(renameValue) ==
    LET newName == trim(toUpperCase(renameValue))
    IN  IF newName = <<>> THEN Kept(FALSE)
        ELSE IF includes(stockList, newName) THEN Kept(TRUE)
        ELSE IF newName = activeSymbol THEN Kept(FALSE)
        ELSE RenamedTo(newName)

\* What handleRenameStock stores for renameValue typed as text: the empty
\* name and the unchanged name change nothing, a name of the list raises
\* the alert and changes nothing.
RenameResult(renameValue) ==
    LET newName == trim(toUpperCase(renameValue))
    IN  IF newName = <<>> THEN Kept(FALSE)
        ELSE IF newName = activeSymbol THEN Kept(FALSE)
        ELSE IF includes(stockList, newName) THEN Kept(TRUE)
        ELSE RenamedTo(newName)

\* handleRenameStock with renameValue typed as text.
handleRenameStock(renameValue) ==
    /\ stockList' = RenameResult(renameValue).stockList
    /\ transactions' = RenameResult(renameValue).transactions
    /\ activeSymbol' = RenameResult(renameValue).activeSymbol
    /\ UNCHANGED <<inputVars, undoVars, now, nextId>>

\* DeleteResult without the test of the last portfolio; the active symbol
\* read from an empty list is the empty name.
DeleteLastToo(confirm) ==
    IF ~confirm THEN Kept(FALSE)
    ELSE LET newList == SelectSeq(stockList, LAMBDA x : x # activeSymbol)
         IN  [stockList |-> newList,
              transactions |->
                  SelectSeq(transactions, LAMBDA t : t.symbol # activeSymbol),
              activeSymbol |-> IF newList = <<>> THEN <<>> ELSE newList[1],
              alert |-> FALSE, done |-> TRUE]

\* What deleteCurrentStock stores: the last portfolio is kept with an
\* alert, and so is the portfolio when window.confirm is answered no.
DeleteResult(confirm) ==
    IF Len(stockList) <= 1 THEN Kept(TRUE)
    ELSE IF ~confirm THEN Kept(FALSE)
    ELSE LET newList == SelectSeq(stockList, LAMBDA x : x # activeSymbol)
         IN  [stockList |-> newList,
              transactions |->
                  SelectSeq(transactions, LAMBDA t : t.symbol # activeSymbol),
              activeSymbol |-> newList[1],
              alert |-> FALSE, done |-> TRUE]

\* deleteCurrentStock; the simulation and target fields are emptied when
\* the portfolio is deleted.
deleteCurrentStock(confirm) ==
    IF ~DeleteResult(confirm).done
    THEN UNCHANGED vars
    ELSE /\ transactions' = DeleteResult(confirm).transactions
         /\ stockList' = DeleteResult(confirm).stockList
         /\ activeSymbol' = DeleteResult(confirm).activeSymbol
         /\ simulationPrice' = <<>>
         /\ targetAverageInput' = <<>>
         /\ UNCHANGED <<undoVars, now, nextId, transactionType, inputPrice,
                        inputQuantity>>

---------------------------------------------------------------------------
(* Transaction handlers                                                    *)

\* The test of handleAddTransaction on the parsed fields.
Rejected(p, q) == isNaN(p) \/ isNaN(q) \/ Le(p, Zero) \/ Le(q, Zero)

\* The list handleAddTransaction stores for the texts of the two fields.
Added(txs, priceText, quantityText) ==
    LET p == parseFloat(priceText)
        q == parseFloat(quantityText)
    IN  IF Rejected(p, q) THEN txs
        ELSE Append(txs,
                    [id |-> nextId + 1, symbol |-> activeSymbol, price |-> p,
                     quantity |-> q, timestamp |-> now, isActive |-> TRUE,
                     type |-> transactionType])

\* handleAddTransaction: the fields are parsed; a transaction of the active
\* portfolio is appended when both are positive numbers.
handleAddTransaction ==
    LET p == parseFloat(inputPrice)
        q == parseFloat(inputQuantity)
    IN  IF Rejected(p, q)
        THEN UNCHANGED vars
        ELSE /\ transactions' = Added(transactions, inputPrice, inputQuantity)
             /\ nextId' = nextId + 1
             /\ simulationPrice' =
                    IF simulationPrice = <<>> /\ transactionType = "BUY"
                    THEN toString(p) ELSE simulationPrice
             /\ inputPrice' = <<>>
             /\ inputQuantity' = <<>>
             /\ UNCHANGED <<stockList, activeSymbol, undoVars, now,
                            transactionType, targetAverageInput>>

\* The list removeTransaction stores: the transaction id is filtered out.
Removed(txs, id) == SelectSeq(txs, LAMBDA t : t.id # id)

removeTransaction(id) ==
    /\ transactions' = Removed(transactions, id)
    /\ UNCHANGED <<stockList, activeSymbol, inputVars, undoVars, now, nextId>>

\* The list toggleTransactionStatus stores: the flag of id is negated.
Toggled(txs, id) ==
    [i \in 1..Len(txs) |->
        IF txs[i].id = id THEN [txs[i] EXCEPT !.isActive = ~@] ELSE txs[i]]

toggleTransactionStatus(id) ==
    /\ transactions' = Toggled(transactions, id)
    /\ UNCHANGED <<stockList, activeSymbol, inputVars, undoVars, now, nextId>>

---------------------------------------------------------------------------
(* Reset and undo                                                          *)

\* ResetResult adding to a pending backup instead of replacing it.
ResetAccumulates ==
    LET txsToRemove ==
            SelectSeq(transactions, LAMBDA t : t.symbol = activeSymbol)
    IN  IF Len(txsToRemove) = 0
        THEN [transactions |-> transactions,
              backupTransactions |-> backupTransactions, done |-> FALSE]
        ELSE [transactions |->
                  SelectSeq(transactions, LAMBDA t : t.symbol # activeSymbol),
              backupTransactions |->
                  IF backupTransactions = null THEN [txs |-> txsToRemove]
                  ELSE [txs |-> backupTransactions.txs \o txsToRemove],
              done |-> TRUE]

\* ResetResult staging only the active transactions of the portfolio.
ResetStagesActive ==
    LET txsToRemove ==
            SelectSeq(transactions, LAMBDA t : t.symbol = activeSymbol)
    IN  IF Len(txsToRemove) = 0
        THEN [transactions |-> transactions,
              backupTransactions |-> backupTransactions, done |-> FALSE]
        ELSE [transactions |->
                  SelectSeq(transactions, LAMBDA t : t.symbol # activeSymbol),
              backupTransactions |-> [txs |-> ActiveOnly(txsToRemove)],
              done |-> TRUE]

\* What handleResetTransactions stores: the transactions of the active
\* portfolio leave the store and become the backup; without any, the
\* handler returns early.
ResetResult ==
    LET txsToRemove ==
            SelectSeq(transactions, LAMBDA t : t.symbol = activeSymbol)
    IN  IF Len(txsToRemove) = 0
        THEN [transactions |-> transactions,
              backupTransactions |-> backupTransactions, done |-> FALSE]
        ELSE [transactions |->
                  SelectSeq(transactions, LAMBDA t : t.symbol # activeSymbol),
              backupTransactions |-> [txs |-> txsToRemove],
              done |-> TRUE]

\* handleResetTransactions; the toast timer is started by the effect only
\* when the toast was not showing already.
handleResetTransactions ==
    IF ~ResetResult.done
    THEN UNCHANGED vars
    ELSE /\ backupTransactions' = ResetResult.backupTransactions
         /\ transactions' = ResetResult.transactions
         /\ simulationPrice' = <<>>
         /\ targetAverageInput' = <<>>
         /\ showUndoToast' = TRUE
         /\ toastTimer' = IF showUndoToast THEN toastTimer ELSE ToastDelay
         /\ UNCHANGED <<stockList, activeSymbol, now, nextId,
                        transactionType, inputPrice, inputQuantity>>

\* The updater of handleUndoDelete: [...prev, ...backupTransactions].
Restore(prev, backup) == prev \o backup.txs

\* What handleUndoDelete stores: a backup is appended to the store and
\* emptied.
UndoResult ==
    IF backupTransactions = null
    THEN [transactions |-> transactions,
          backupTransactions |-> backupTransactions, done |-> FALSE]
    ELSE [transactions |-> Restore(transactions, backupTransactions),
          backupTransactions |-> null, done |-> TRUE]

\* handleUndoDelete; hiding the toast makes the effect's cleanup clear the
\* timer.
handleUndoDelete ==
    IF ~UndoResult.done
    THEN UNCHANGED vars
    ELSE /\ transactions' = UndoResult.transactions
         /\ backupTransactions' = UndoResult.backupTransactions
         /\ showUndoToast' = FALSE
         /\ toastTimer' = NoTimer
         /\ UNCHANGED <<stockList, activeSymbol, inputVars, now, nextId>>

\* The callback of the toast timer.
toastTimeout ==
    /\ toastTimer = 0
    /\ showUndoToast' = FALSE
    /\ backupTransactions' = null
    /\ toastTimer' = NoTimer
    /\ UNCHANGED <<storeVars, inputVars, now, nextId>>

\* Time passes: d clock units, at most until the pending timer is due.
Tick(d) ==
    /\ now + d <= MaxTime
    /\ toastTimer = NoTimer \/ d <= toastTimer
    /\ now' = now + d
    /\ toastTimer' = IF toastTimer = NoTimer THEN NoTimer ELSE toastTimer - d
    /\ UNCHANGED <<storeVars, inputVars, backupTransactions, showUndoToast,
                   nextId>>

---------------------------------------------------------------------------
(* The application from a fresh start                                      *)

Ids == {transactions[i].id : i \in 1..Len(transactions)}

Next ==
    \/ \E text \in PriceTexts : setInputPrice(text)
    \/ \E text \in PriceTexts : setInputQuantity(text)
    \/ \E ty \in {"BUY", "SELL"} : setTransactionType(ty)
    \/ \E stock \in {stockList[i] : i \in 1..Len(stockList)} : selectStock(stock)
    \/ \E text \in NameTexts : Len(stockList) < MaxStocks /\ handleAddStock(text)
    \/ \E text \in NameTexts : handleRenameStock(text)
    \/ \E confirm \in BOOLEAN : deleteCurrentStock(confirm)
    \/ nextId < MaxTx /\ handleAddTransaction
    \/ \E id \in Ids : removeTransaction(id)
    \/ \E id \in Ids : toggleTransactionStatus(id)
    \/ handleResetTransactions
    \/ handleUndoDelete
    \/ toastTimeout
    \/ \E d \in 1..ToastDelay : Tick(d)

Spec == Init /\ [][Next]_vars

---------------------------------------------------------------------------
(* The application restored from localStorage                              *)

Prices == {Num(i) : i \in 1..MaxNum}

\* A history of n transactions of the default portfolio as the store has
\* saved it: created one after the other (ids and timestamps 1 .. n), each
\* with the type, price, quantity and flag that f gives it.
SavedHistory(n, f) ==
    [i \in 1..n |-> [id |-> i, symbol |-> GENEL, price |-> f[i].price,
                     quantity |-> f[i].quantity, timestamp |-> i,
                     isActive |-> f[i].isActive, type |-> f[i].type]]

Shapes(n, flags) ==
    [1..n -> [type : {"BUY", "SELL"}, price : Prices, quantity : Prices,
              isActive : flags]]

\* The stored order of a history whose first k transactions were reset and
\* restored by an undo after the others had been added: they come last.
Restored(h, k) == SubSeq(h, k + 1, Len(h)) \o SubSeq(h, 1, k)

\* The state after loading: useState initializers (App.tsx:10-68) on a
\* saved list; saved records carry isActive and type, so the migration of
\* App.tsx:38-42 leaves them as they are.
InitLoaded(saved) ==
    /\ stockList = <<GENEL>>
    /\ activeSymbol = GENEL
    /\ transactions = saved
    /\ transactionType = "BUY"
    /\ inputPrice = <<>>
    /\ inputQuantity = <<>>
    /\ simulationPrice = <<>>
    /\ targetAverageInput = <<>>
    /\ backupTransactions = null
    /\ showUndoToast = FALSE
    /\ toastTimer = NoTimer
    /\ now = Len(saved) + 1
    /\ nextId = Len(saved)

\* The ledger: a saved store of active transactions, which are then
\* toggled and removed.
InitReplay ==
    \E n \in 0..MaxTx : \E f \in Shapes(n, {TRUE}) : \E k \in 0..n :
        /\ k < n \/ n = 0
        /\ InitLoaded(Restored(SavedHistory(n, f), k))

NextReplay ==
    \/ \E id \in Ids : toggleTransactionStatus(id)
    \/ \E id \in Ids : removeTransaction(id)

SpecReplay == InitReplay /\ [][NextReplay]_vars

\* The simulation panel: a saved history of active transactions, which are
\* toggled, valued at the prices and targets typed into the two fields.
InitSim ==
    \E n \in 0..MaxSimTx : \E f \in Shapes(n, {TRUE}) :
        InitLoaded(SavedHistory(n, f))

NextSim ==
    \/ \E text \in TargetTexts : setSimulationPrice(text)
    \/ clearSimulationPrice
    \/ \E text \in TargetTexts : setTargetAverageInput(text)
    \/ \E id \in Ids : toggleTransactionStatus(id)

SpecSim == InitSim /\ [][NextSim]_vars

---------------------------------------------------------------------------
(* Properties of the replays (SpecReplay)                                  *)

\* The running totals of the annotator before entry k of the history.
StatsBefore(k) == StatsRun(currentTransactions, k - 1)

\* The average cost the annotator realizes a sale against.
AvgOf(acc) == IF Gt(acc.qty, Zero) THEN Div(acc.cost, acc.qty) ELSE Zero

\* C1: the annotator runs the same replay as the aggregator: at every sale
\* that receives a realized P/L its cost basis is the averageCost the
\* aggregator returns for the active transactions before the sale, and at
\* the end of the history its running quantity and cost are the
\* aggregator's totalQuantity and totalCost.
C1_SameReplay ==
    LET cur == currentTransactions
        out == transactionsWithStats
        end == StatsRun(cur, Len(cur))
    IN  /\ \A k \in 1..Len(cur) :
              out[k].realizedPL # null =>
                  AvgOf(StatsBefore(k)) =
                      summaryOf(SubSeq(cur, 1, k - 1)).averageCost
        /\ end.qty = summary.totalQuantity
        /\ end.cost = summary.totalCost

\* C2: the position is never negative, and its average cost is
\* totalCost / totalQuantity for a positive quantity and 0 otherwise.
C2_PositionInvariant ==
    LET pos == summary
    IN  /\ Ge(pos.totalQuantity, Zero)
        /\ Ge(pos.totalCost, Zero)
        /\ Gt(pos.totalQuantity, Zero) =>
               pos.averageCost = Div(pos.totalCost, pos.totalQuantity)
        /\ ~Gt(pos.totalQuantity, Zero) => pos.averageCost = Zero

\* C2 witness: a history that oversells, which the clamp brings back to 0.
C2_Witness ==
    LET act == ActiveOnly(currentTransactions)
        raw == SummaryRun(act, Len(act))
    IN  /\ Lt(raw.qty, Zero)
        /\ Lt(raw.cost, Zero)
        /\ summary.totalQuantity = Zero

\* The sales of part of a positive running quantity in the aggregator's
\* loop: the indices k of the active history at which one is applied.
PartialSales ==
    LET act == ActiveOnly(currentTransactions)
    IN  {k \in 1..Len(act) :
            /\ act[k].type = "SELL"
            /\ Gt(SummaryRun(act, k - 1).qty, Zero)
            /\ Lt(act[k].quantity, SummaryRun(act, k - 1).qty)}

\* C3: a sale of part of a positive running quantity leaves the average
\* cost as it was, and the running cost is the remaining quantity times it.
C3_AverageUnchangedBySale ==
    LET act == ActiveOnly(currentTransactions)
    IN  \A k \in PartialSales :
            LET before == SummaryRun(act, k - 1)
                after  == SummaryRun(act, k)
                avg    == Div(before.cost, before.qty)
            IN  /\ after.qty = Sub(before.qty, act[k].quantity)
                /\ Div(after.cost, after.qty) = avg
                /\ after.cost = Mul(Sub(before.qty, act[k].quantity), avg)

\* C3 witness: a partial sale at a price other than the average cost.
C3_Witness ==
    LET act == ActiveOnly(currentTransactions)
    IN  \E k \in PartialSales :
            act[k].price # Div(SummaryRun(act, k - 1).cost,
                               SummaryRun(act, k - 1).qty)

\* The active sales the annotator meets with a positive running quantity.
RealizedSales ==
    {k \in 1..Len(currentTransactions) :
        /\ currentTransactions[k].isActive
        /\ currentTransactions[k].type = "SELL"
        /\ Gt(StatsBefore(k).qty, Zero)}

\* C4: such a sale realizes (price - average before) * quantity, and the
\* percentage is (price - average before) / average before * 100, or 0
\* when the average before is not positive.
C4_RealizedPL ==
    \A k \in RealizedSales :
        LET t   == currentTransactions[k]
            avg == Div(StatsBefore(k).cost, StatsBefore(k).qty)
            out == transactionsWithStats[k]
        IN  /\ out.realizedPL =
                   Sub(Mul(t.quantity, t.price), Mul(t.quantity, avg))
            /\ out.realizedPLPercent =
                   IF Gt(avg, Zero)
                   THEN Mul(Div(Sub(t.price, avg), avg), Hundred)
                   ELSE Zero

\* C4 witness: a sale above the average cost, which realizes a profit.
C4_Witness ==
    \E k \in RealizedSales :
        /\ Gt(currentTransactions[k].price, AvgOf(StatsBefore(k)))
        /\ Gt(transactionsWithStats[k].realizedPL, Zero)
        /\ Gt(transactionsWithStats[k].realizedPLPercent, Zero)

\* C5: the annotated list is the portfolio's transactions in timestamp
\* order, one entry each, and an entry carries a realized P/L exactly when
\* it is an active SELL met with a positive running quantity.
C5_AnnotatedOutput ==
    LET cur    == currentTransactions
        out    == transactionsWithStats
        stored == SelectSeq(transactions, LAMBDA t : t.symbol = activeSymbol)
    IN  /\ Len(out) = Len(stored)
        /\ {out[k].t : k \in 1..Len(out)} = {stored[k] : k \in 1..Len(stored)}
        /\ \A j, k \in 1..Len(out) :
               j < k => out[j].t.timestamp <= out[k].t.timestamp
        /\ \A k \in 1..Len(out) :
               (out[k].realizedPL # null) <=> (k \in RealizedSales)

\* C5 witness: a store that is not in timestamp order, holding a sale from
\* an empty position (no figure) and an inactive transaction.
C5_Witness ==
    /\ \E j, k \in 1..Len(transactions) :
           j < k /\ transactions[j].timestamp > transactions[k].timestamp
    /\ \E k \in 1..Len(currentTransactions) :
           /\ currentTransactions[k].isActive
           /\ currentTransactions[k].type = "SELL"
           /\ transactionsWithStats[k].realizedPL = null
    /\ \E k \in 1..Len(currentTransactions) :
           ~currentTransactions[k].isActive

\* The realized figures of a store, by transaction id.
StatsById(txs, symbol) ==
    LET out == transactionsWithStatsOf(currentTransactionsOf(txs, symbol))
    IN  {<<out[k].t.id, out[k].realizedPL, out[k].realizedPLPercent>> :
            k \in 1..Len(out)}

StatsOfOthers(txs, symbol, id) ==
    {r \in StatsById(txs, symbol) : r[1] # id}

PositionOf(txs, symbol) == summaryOf(currentTransactionsOf(txs, symbol))

\* C6: a step that toggles an active transaction inactive keeps every
\* record of the store but for that flag; the position and the realized
\* figures of the other transactions are then those of the store without
\* the transaction; and toggling it again gives back the results of before.
C6_InactiveExclusion ==
    [][\A i \in 1..Len(transactions) :
          LET id == transactions[i].id
          IN  (transactions[i].isActive /\ transactions' = Toggled(transactions, id))
              => /\ Len(transactions') = Len(transactions)
                 /\ \A j \in 1..Len(transactions) :
                        /\ j # i => transactions'[j] = transactions[j]
                        /\ transactions'[i] =
                               [transactions[i] EXCEPT !.isActive = FALSE]
                 /\ PositionOf(transactions', activeSymbol) =
                        PositionOf(Removed(transactions, id), activeSymbol)
                 /\ StatsOfOthers(transactions', activeSymbol, id) =
                        StatsById(Removed(transactions, id), activeSymbol)
                 /\ PositionOf(Toggled(transactions', id), activeSymbol) =
                        PositionOf(transactions, activeSymbol)
                 /\ StatsById(Toggled(transactions', id), activeSymbol) =
                        StatsById(transactions, activeSymbol)
      ]_vars

\* C6 witness: a transaction has been toggled inactive, and the position
\* differs from the one the store would have with it active.
C6_Witness ==
    \E i \in 1..Len(transactions) :
        /\ ~transactions[i].isActive
        /\ PositionOf(transactions, activeSymbol) #
               PositionOf(Toggled(transactions, transactions[i].id), activeSymbol)

\* The sum of the quantities of the first k transactions of a history.
RECURSIVE SumQuantity(_, _)
SumQuantity(cur, k) ==
    IF k = 0 THEN Zero ELSE Add(SumQuantity(cur, k - 1), cur[k].quantity)

\* The sum of price * quantity of the first k transactions of a history.
RECURSIVE SumValue(_, _)
SumValue(cur, k) ==
    IF k = 0 THEN Zero
    ELSE Add(SumValue(cur, k - 1), Mul(cur[k].price, cur[k].quantity))

\* The history is made of active purchases only, at least one.
OnlyBuys ==
    /\ currentTransactions # <<>>
    /\ \A k \in 1..Len(currentTransactions) :
           /\ currentTransactions[k].isActive
           /\ currentTransactions[k].type = "BUY"

\* C18: for a history of active purchases only, the total quantity is the
\* sum of the quantities, the total cost the sum of price * quantity, and
\* the average cost their quotient.
C18_BuysOnly ==
    OnlyBuys =>
        LET cur == currentTransactions
            n   == Len(cur)
        IN  /\ summary.totalQuantity = SumQuantity(cur, n)
            /\ summary.totalCost = SumValue(cur, n)
            /\ summary.averageCost = Div(SumValue(cur, n), SumQuantity(cur, n))

\* C18 witness: two purchases at different prices, of more than one share.
C18_Witness ==
    /\ OnlyBuys
    /\ Len(currentTransactions) = 2
    /\ currentTransactions[1].price # currentTransactions[2].price
    /\ Gt(currentTransactions[1].quantity, Num(1))
    /\ summary.averageCost # currentTransactions[1].price
    /\ summary.averageCost # currentTransactions[2].price

\* C19: both replays clamp inside the loop: after every transaction of the
\* history the running quantity and the running cost of the aggregator,
\* and those of the annotator, are >= 0.
C19_ClampInLoop ==
    LET cur == currentTransactions
        act == ActiveOnly(cur)
    IN  /\ \A k \in 1..Len(act) :
               /\ Ge(SummaryRun(act, k).qty, Zero)
               /\ Ge(SummaryRun(act, k).cost, Zero)
        /\ \A k \in 1..Len(cur) :
               /\ Ge(StatsRun(cur, k).qty, Zero)
               /\ Ge(StatsRun(cur, k).cost, Zero)

\* C23: the position satisfies totalCost = averageCost * totalQuantity;
\* with totalQuantity = 0 the totalCost is 0.
C23_CostIsAverageTimesQuantity ==
    LET pos == summary
    IN  /\ pos.totalCost = Mul(pos.averageCost, pos.totalQuantity)
        /\ pos.totalQuantity = Zero => pos.totalCost = Zero

\* The entry form next to the simulation field: a saved history of active
\* transactions, the price, quantity and type fields, and the submit.
NextEntry ==
    \/ \E text \in PriceTexts : setInputPrice(text)
    \/ \E text \in PriceTexts : setInputQuantity(text)
    \/ \E ty \in {"BUY", "SELL"} : setTransactionType(ty)
    \/ nextId < MaxTx /\ handleAddTransaction
    \/ \E text \in TargetTexts : setSimulationPrice(text)
    \/ clearSimulationPrice

SpecEntry == InitSim /\ [][NextEntry]_vars

---------------------------------------------------------------------------
(* Properties of the entry form, the simulation and the solver             *)

\* A field value that is no positive number.
NotPositive(x) == isNaN(x) \/ Le(x, Zero)

\* C7: a price or quantity that is no positive number yields no
\* derivation: the submit leaves the store as it is, the preview is null,
\* and the simulation is null for such a simulation price.
C7_NoDerivation ==
    /\ (NotPositive(parseFloat(inputPrice)) \/ NotPositive(parseFloat(inputQuantity)))
           => /\ previewData = null
              /\ Added(transactions, inputPrice, inputQuantity) = transactions
    /\ NotPositive(parseFloat(simulationPrice)) => simulation = null

\* The solver is offered a target: the simulation shows a loss and the
\* target field is filled.
SolverActive ==
    /\ simulation # null
    /\ simulation.status = "LOSS"
    /\ targetAverageInput # <<>>

\* The solver has returned a quantity.
Solved == costAveragingData # null /\ costAveragingData.error = null

\* C8: the solver gives nothing unless the simulation shows a loss and a
\* target is entered; then a target <= 0 gives nothing, a target <= the
\* simulated price the first error, a target >= the average cost the
\* second, and any other target the quantity
\* totalQuantity * (averageCost - target) / (target - price) and the
\* capital quantity * price.
C8_Solver ==
    LET T   == parseFloat(targetAverageInput)
        s   == parseFloat(simulationPrice)
        pos == summary
        r   == costAveragingData
    IN  IF ~SolverActive THEN r = null
        ELSE IF Le(T, Zero) THEN r = null
        ELSE IF Le(T, s) THEN r = [error |-> ErrTargetNotAbovePrice]
        ELSE IF Ge(T, pos.averageCost)
             THEN r = [error |-> ErrTargetNotBelowAverage]
        ELSE /\ r # null
             /\ r.error = null
             /\ Mul(r.requiredQty, Sub(T, s)) =
                    Mul(pos.totalQuantity, Sub(pos.averageCost, T))
             /\ r.requiredCapital = Mul(r.requiredQty, s)

\* C8 witness: a solve at a positive simulated price.
C8_Witness ==
    /\ Solved
    /\ Gt(parseFloat(simulationPrice), Zero)
    /\ Gt(costAveragingData.requiredQty, Zero)
    /\ Gt(costAveragingData.requiredCapital, Zero)

\* C9: buying the quantity the solver returns, at the simulated price,
\* brings the blended average to the target, and this is the new average
\* the preview reports for that purchase.
C9_RoundTrip ==
    Solved =>
        LET T   == parseFloat(targetAverageInput)
            s   == parseFloat(simulationPrice)
            x   == costAveragingData.requiredQty
            pos == summary
            pv  == previewOf("BUY", s, x, pos)
        IN  /\ Div(Add(Mul(pos.totalQuantity, pos.averageCost), Mul(x, s)),
                   Add(pos.totalQuantity, x)) = T
            /\ pv # null
            /\ pv.newAvg = T

\* C10: the simulation is null for an empty position and for a price that
\* is absent or does not parse; otherwise it values the position at the
\* price, and the status is the sign of the total.
C10_Simulation ==
    LET s   == parseFloat(simulationPrice)
        pos == summary
        sim == simulation
    IN  IF pos.totalQuantity = Zero \/ simulationPrice = <<>> \/ isNaN(s)
        THEN sim = null
        ELSE /\ sim # null
             /\ sim.currentValue = Mul(s, pos.totalQuantity)
             /\ sim.profitOrLossTotal = Sub(sim.currentValue, pos.totalCost)
             /\ sim.profitOrLossPerShare = Sub(s, pos.averageCost)
             /\ sim.percentageChange =
                    IF Gt(pos.averageCost, Zero)
                    THEN Mul(Div(sim.profitOrLossPerShare, pos.averageCost),
                             Hundred)
                    ELSE Zero
             /\ sim.status \in {"PROFIT", "LOSS", "NEUTRAL"}
             /\ sim.status = "PROFIT" <=> Gt(sim.profitOrLossTotal, Zero)
             /\ sim.status = "LOSS" <=> Lt(sim.profitOrLossTotal, Zero)
             /\ sim.status = "NEUTRAL" <=> sim.profitOrLossTotal = Zero

\* C10 witness: a position valued at exactly its average cost.
C10_Witness ==
    /\ simulation # null
    /\ Gt(summary.totalQuantity, Zero)
    /\ parseFloat(simulationPrice) = summary.averageCost
    /\ simulation.status = "NEUTRAL"

\* The preview panel: a saved history of active transactions, which are
\* toggled, and the type, price and quantity fields of the entry form.
NextPreview ==
    \/ \E text \in PriceTexts : setInputPrice(text)
    \/ \E text \in PriceTexts : setInputQuantity(text)
    \/ \E ty \in {"BUY", "SELL"} : setTransactionType(ty)
    \/ \E id \in Ids : toggleTransactionStatus(id)

SpecPreview == InitSim /\ [][NextPreview]_vars

\* The preview is offered a valid transaction: both fields hold positive
\* numbers.
PreviewValid ==
    /\ ~NotPositive(parseFloat(inputPrice))
    /\ ~NotPositive(parseFloat(inputQuantity))

\* C11: the preview of a valid transaction of price p and quantity q on
\* the position (qty, cost, avg): a BUY gives the new average
\* (cost + p*q) / (qty + q) and no realized figure; a SELL leaves
\* max(0, qty - q), for which the new average is avg when something is left
\* and 0 when nothing is, and realizes (p - avg) * q; the difference is
\* new average - avg, and the transaction is the first exactly when qty = 0.
C11_Preview ==
    PreviewValid =>
        LET p   == parseFloat(inputPrice)
            q   == parseFloat(inputQuantity)
            pos == summary
            pv  == previewData
            newQty == Max0(Sub(pos.totalQuantity, q))
        IN  /\ pv # null
            /\ transactionType = "BUY" =>
                   /\ pv.newAvg = Div(Add(pos.totalCost, Mul(p, q)),
                                      Add(pos.totalQuantity, q))
                   /\ pv.estimatedRealizedPL = null
            /\ transactionType = "SELL" =>
                   /\ Gt(newQty, Zero) => pv.newAvg = pos.averageCost
                   /\ newQty = Zero => pv.newAvg = Zero
                   /\ pv.estimatedRealizedPL =
                          Sub(Mul(p, q), Mul(pos.averageCost, q))
            /\ pv.diff = Sub(pv.newAvg, pos.averageCost)
            /\ pv.isFirst <=> (pos.totalQuantity = Zero)

\* C11 witness: the preview of a sale of part of the position at a price
\* other than its average cost.
C11_Witness ==
    /\ PreviewValid
    /\ transactionType = "SELL"
    /\ Lt(parseFloat(inputQuantity), summary.totalQuantity)
    /\ parseFloat(inputPrice) # summary.averageCost
    /\ previewData # null
    /\ previewData.estimatedRealizedPL # Zero

\* The history of the active portfolio once the transaction of the entry
\* form is committed.
Committed ==
    currentTransactionsOf(Added(transactions, inputPrice, inputQuantity),
                          activeSymbol)

\* C24: the preview agrees with the commit: for a valid transaction of the
\* entry form, the new average of the preview is the average cost of the
\* position of the history with the transaction committed.
C24_PreviewAgreesWithCommit ==
    PreviewValid =>
        /\ previewData # null
        /\ Len(Committed) = Len(currentTransactions) + 1
        /\ previewData.newAvg = summaryOf(Committed).averageCost

\* C25: for a valid SELL of the entry form, the estimated realized P/L of
\* the preview is the realized P/L that the annotator attaches to the
\* transaction once it is committed, null for an empty position.
C25_EstimateIsRealized ==
    (PreviewValid /\ transactionType = "SELL") =>
        /\ previewData # null
        /\ Len(Committed) = Len(currentTransactions) + 1
        /\ previewData.estimatedRealizedPL =
               transactionsWithStatsOf(Committed)[Len(Committed)].realizedPL

\* C20: whenever the solver returns a quantity, the denominator
\* target - simulated price is > 0, the quantity is > 0, and
\* simulated price < target < average cost; and while the simulation shows
\* a loss on a position of positive quantity, the simulated price is below
\* the average cost, so no target is both <= the simulated price and >=
\* the average cost.
C20_SolverDenominator ==
    LET T   == parseFloat(targetAverageInput)
        s   == parseFloat(simulationPrice)
        pos == summary
    IN  /\ Solved =>
               /\ Gt(Sub(T, s), Zero)
               /\ Gt(costAveragingData.requiredQty, Zero)
               /\ Lt(s, T)
               /\ Lt(T, pos.averageCost)
        /\ (simulation # null /\ simulation.status = "LOSS") =>
               /\ Gt(pos.totalQuantity, Zero)
               /\ Lt(s, pos.averageCost)
               /\ \A text \in TargetTexts :
                      ~(/\ Le(parseFloat(text), s)
                        /\ Ge(parseFloat(text), pos.averageCost))

\* C20 witness: a solve for a target half a unit above the simulated price.
C20_Witness ==
    /\ Solved
    /\ Sub(parseFloat(targetAverageInput), parseFloat(simulationPrice)) =
           Rat(1, 2)
    /\ Lt(parseFloat(targetAverageInput), summary.averageCost)

---------------------------------------------------------------------------
(* Properties of the portfolio list                                        *)

\* What the entry fields are given while portfolios are managed.
UnitTexts == {toString(Num(1))}

StockSet == {stockList[i] : i \in 1..Len(stockList)}

\* The portfolio tabs from a fresh start: portfolios are created, selected,
\* renamed and deleted, unit purchases are entered, and the active
\* portfolio is reset and restored.
NextPortfolio ==
    \/ \E text \in UnitTexts : setInputPrice(text)
    \/ \E text \in UnitTexts : setInputQuantity(text)
    \/ nextId < MaxTx /\ handleAddTransaction
    \/ \E stock \in StockSet : selectStock(stock)
    \/ \E text \in NameTexts : Len(stockList) < MaxStocks /\ handleAddStock(text)
    \/ \E text \in NameTexts : handleRenameStock(text)
    \/ \E confirm \in BOOLEAN : deleteCurrentStock(confirm)
    \/ handleResetTransactions
    \/ handleUndoDelete

SpecPortfolio == Init /\ [][NextPortfolio]_vars

\* The list, the store and the active symbol of a result are the current.
StoreKept(r) ==
    /\ r.stockList = stockList
    /\ r.transactions = transactions
    /\ r.activeSymbol = activeSymbol

\* C12: the portfolio list is never empty, and a delete of the only
\* portfolio is rejected: the list, the store and the active symbol stay
\* as they are, whatever the answer to the confirmation.
C12_OnePortfolioAlways ==
    /\ Len(stockList) >= 1
    /\ Len(stockList) = 1 =>
           \A confirm \in BOOLEAN :
               /\ StoreKept(DeleteResult(confirm))
               /\ ~DeleteResult(confirm).done

\* C12 witness: a single portfolio is left after the portfolio holding the
\* one transaction entered so far was deleted with it.
C12_Witness ==
    /\ Len(stockList) = 1
    /\ nextId = 1
    /\ transactions = <<>>
    /\ backupTransactions = null

\* Renaming from a fresh start: portfolios are created, selected and
\* renamed, and unit purchases are entered; none is deleted.
NextRename ==
    \/ \E text \in UnitTexts : setInputPrice(text)
    \/ \E text \in UnitTexts : setInputQuantity(text)
    \/ nextId < MaxTx /\ handleAddTransaction
    \/ \E stock \in StockSet : selectStock(stock)
    \/ \E text \in NameTexts : Len(stockList) < MaxStocks /\ handleAddStock(text)
    \/ \E text \in NameTexts : handleRenameStock(text)

SpecRename == Init /\ [][NextRename]_vars

\* The name a name field stands for.
NameOf(text) == trim(toUpperCase(text))

\* Transaction u is transaction t under the symbol B.
SameButSymbol(u, t, B) ==
    /\ u.symbol = B
    /\ u.id = t.id
    /\ u.price = t.price
    /\ u.quantity = t.quantity
    /\ u.timestamp = t.timestamp
    /\ u.isActive = t.isActive
    /\ u.type = t.type

\* C13: renaming the active portfolio A to a name B that is not in the
\* list puts B in the place of A in the list, makes B the active symbol
\* and gives the symbol B to every transaction of A, all else of the list
\* and of the store staying as it is; a rename to a name of the list
\* changes nothing.
C13_Rename ==
    \A text \in NameTexts :
        LET A == activeSymbol
            B == NameOf(text)
            r == RenameResult(text)
        IN  /\ (B # <<>> /\ ~includes(stockList, B)) =>
                   /\ Len(r.stockList) = Len(stockList)
                   /\ \A i \in 1..Len(stockList) :
                          r.stockList[i] =
                              IF stockList[i] = A THEN B ELSE stockList[i]
                   /\ r.activeSymbol = B
                   /\ Len(r.transactions) = Len(transactions)
                   /\ \A i \in 1..Len(transactions) :
                          IF transactions[i].symbol = A
                          THEN SameButSymbol(r.transactions[i],
                                             transactions[i], B)
                          ELSE r.transactions[i] = transactions[i]
            /\ includes(stockList, B) => StoreKept(r)

\* C13 witness: the first portfolio has been renamed; it and the second
\* portfolio hold a transaction each.
C13_Witness ==
    /\ Len(stockList) = 2
    /\ stockList[1] # GENEL
    /\ \E i, j \in 1..Len(transactions) :
           /\ transactions[i].symbol = stockList[1]
           /\ transactions[j].symbol = stockList[2]

\* C14: a rename of the active portfolio to a text that stands for its own
\* name changes neither the list, nor the store, nor the active symbol,
\* and raises no alert of a collision.
C14_RenameToOwnName ==
    \A text \in NameTexts :
        NameOf(text) = activeSymbol =>
            /\ StoreKept(RenameResult(text))
            /\ ~RenameResult(text).alert

\* C14 witness: the active portfolio holds a transaction, next to another
\* portfolio, and a text in other letters stands for its name.
C14_Witness ==
    /\ Len(stockList) = 2
    /\ \E i \in 1..Len(transactions) : transactions[i].symbol = activeSymbol
    /\ \E text \in NameTexts : text # activeSymbol /\ NameOf(text) = activeSymbol

\* No symbol is twice in the list.
Unique(list) ==
    \A i, j \in 1..Len(list) : list[i] = list[j] => i = j

\* C17: the symbols of the portfolio list are unique, and stay unique by
\* a create, a rename and a delete; a create or a rename to a name that is
\* in the list leaves the list and the store as they are.
C17_UniqueSymbols ==
    /\ Unique(stockList)
    /\ \A confirm \in BOOLEAN : Unique(DeleteResult(confirm).stockList)
    /\ \A text \in NameTexts :
           /\ Unique(AddStockResult(text).stockList)
           /\ Unique(RenameResult(text).stockList)
           /\ includes(stockList, NameOf(text)) =>
                  /\ AddStockResult(text).stockList = stockList
                  /\ AddStockResult(text).transactions = transactions
                  /\ RenameResult(text).stockList = stockList
                  /\ RenameResult(text).transactions = transactions

\* C17 witness: two portfolios with a transaction each, the second one
\* created and active, and a text that stands for the name of the first.
C17_Witness ==
    /\ Len(stockList) = 2
    /\ activeSymbol = stockList[2]
    /\ \E i, j \in 1..Len(transactions) :
           /\ transactions[i].symbol = stockList[1]
           /\ transactions[j].symbol = stockList[2]
    /\ \E text \in NameTexts : NameOf(text) = stockList[1]

---------------------------------------------------------------------------
(* Properties of reset and undo                                            *)

\* The name of the second saved portfolio.
NameA == <<"A">>

\* A store of n unit purchases saved before the start, the i-th one in the
\* portfolio sym[i].
SavedUnits(n, sym) ==
    [i \in 1..n |-> [id |-> i, symbol |-> sym[i], price |-> Num(1),
                     quantity |-> Num(1), timestamp |-> i - n - 1,
                     isActive |-> TRUE, type |-> "BUY"]]

\* The state after loading two saved portfolios and their purchases
\* (App.tsx:10-68); the clock starts with the session.
InitUndo ==
    \E n \in 0..MaxTx : \E sym \in [1..n -> {GENEL, NameA}] :
        /\ stockList = <<GENEL, NameA>>
        /\ activeSymbol = GENEL
        /\ transactions = SavedUnits(n, sym)
        /\ transactionType = "BUY"
        /\ inputPrice = <<>>
        /\ inputQuantity = <<>>
        /\ simulationPrice = <<>>
        /\ targetAverageInput = <<>>
        /\ backupTransactions = null
        /\ showUndoToast = FALSE
        /\ toastTimer = NoTimer
        /\ now = 0
        /\ nextId = n

\* Reset and undo: the two portfolios are selected and reset, the backup
\* is restored, time passes and the toast timer fires.
NextUndo ==
    \/ \E stock \in StockSet : selectStock(stock)
    \/ handleResetTransactions
    \/ handleUndoDelete
    \/ toastTimeout
    \/ \E d \in 1..ToastDelay : Tick(d)

SpecUndo == InitUndo /\ [][NextUndo]_vars

SetOf(seq) == {seq[i] : i \in 1..Len(seq)}

\* The transactions of the active portfolio in the store.
OfActive == SelectSeq(transactions, LAMBDA t : t.symbol = activeSymbol)

\* The ids of the transactions held in the store or in the buffer.
HeldIds ==
    {t.id : t \in SetOf(transactions)} \cup
    (IF backupTransactions = null THEN {}
     ELSE {t.id : t \in SetOf(backupTransactions.txs)})

\* What a reset and an undo do in the current state.
C15_State ==
    LET r == ResetResult
        u == UndoResult
    IN  /\ OfActive # <<>> =>
               /\ r.backupTransactions # null
               /\ r.backupTransactions.txs = OfActive
               /\ \A t \in SetOf(r.transactions) : t.symbol # activeSymbol
               /\ SetOf(r.transactions) = SetOf(transactions) \ SetOf(OfActive)
               /\ Len(r.transactions) = Len(transactions) - Len(OfActive)
        /\ OfActive = <<>> =>
               /\ r.transactions = transactions
               /\ r.backupTransactions = backupTransactions
        /\ backupTransactions # null =>
               /\ u.transactions = transactions \o backupTransactions.txs
               /\ u.backupTransactions = null
        /\ backupTransactions = null =>
               /\ u.transactions = transactions
               /\ u.backupTransactions = null

\* C15: the undo buffer has one slot and the most recent reset wins: a
\* reset takes the transactions of the active portfolio out of the store
\* and makes exactly them the buffer, in place of a pending one; a reset of
\* a portfolio without transactions changes neither; an undo appends the
\* buffer to the store and empties it, and does nothing on an empty
\* buffer; and a transaction that has left both the store and the buffer
\* never comes back.
C15_UndoBuffer ==
    /\ []C15_State
    /\ [][HeldIds' \subseteq (HeldIds \cup {nextId'})]_vars

\* C15 witness: before the timer could fire, an undo has restored the
\* second of two resets, and the transactions of the first are gone.
C15_Witness ==
    /\ now < ToastDelay
    /\ backupTransactions = null
    /\ ~showUndoToast
    /\ transactions # <<>>
    /\ HeldIds # 1..nextId

\* A step stages transactions: it leaves a new buffer.
Stages ==
    /\ backupTransactions' # null
    /\ backupTransactions' # backupTransactions

\* The pending timer counts down with the clock, and a buffer is always
\* under a pending timer.
TimerRuns ==
    /\ (toastTimer # NoTimer /\ toastTimer' # NoTimer /\ ~Stages) =>
           toastTimer - toastTimer' = now' - now
    /\ backupTransactions' # null => toastTimer' \in 0..ToastDelay

\* A buffer goes only by an undo, by another reset, or when its timer is
\* due; and with an empty buffer an undo does not change the store.
BufferLasts ==
    /\ (backupTransactions # null /\ backupTransactions' # backupTransactions) =>
           \/ Stages
           \/ transactions' = transactions \o backupTransactions.txs
           \/ toastTimer = 0
    /\ backupTransactions' = null => UndoResult'.transactions = transactions'

\* The timer has fired: the buffer is empty and the toast hidden.
TimerFired ==
    (toastTimer = 0 /\ toastTimer' = NoTimer) =>
        /\ backupTransactions' = null
        /\ ~showUndoToast'

\* C16: the buffer expires 5 clock units after the reset that staged it:
\* every reset that stages transactions, one made during a pending buffer
\* included, leaves a timer of ToastDelay units, which runs with the
\* clock; until it is due the buffer goes only by an undo or another
\* reset; and once it has fired the buffer is empty and an undo does not
\* change the store.
C16_BufferExpiry ==
    [][/\ Stages => toastTimer' = ToastDelay
       /\ TimerRuns
       /\ BufferLasts
       /\ TimerFired]_vars

---------------------------------------------------------------------------
(* Properties of reset followed by undo                                    *)

\* A store of n single-share transactions of two portfolios as saved: the
\* i-th one with the type, price and portfolio that f gives it.
SavedLedger(n, f) ==
    [i \in 1..n |-> [id |-> i, symbol |-> f[i].symbol, price |-> f[i].price,
                     quantity |-> Num(1), timestamp |-> i,
                     isActive |-> TRUE, type |-> f[i].type]]

\* The state after loading two saved portfolios and their transactions
\* (App.tsx:10-68).
InitRoundTrip ==
    \E n \in 0..MaxTx :
        \E f \in [1..n -> [type : {"BUY", "SELL"}, price : Prices,
                           symbol : {GENEL, NameA}]] :
            /\ stockList = <<GENEL, NameA>>
            /\ activeSymbol = GENEL
            /\ transactions = SavedLedger(n, f)
            /\ transactionType = "BUY"
            /\ inputPrice = <<>>
            /\ inputQuantity = <<>>
            /\ simulationPrice = <<>>
            /\ targetAverageInput = <<>>
            /\ backupTransactions = null
            /\ showUndoToast = FALSE
            /\ toastTimer = NoTimer
            /\ now = n + 1
            /\ nextId = n

\* The two portfolios are selected, their transactions toggled, and the
\* active portfolio is reset and restored.
NextRoundTrip ==
    \/ \E stock \in StockSet : selectStock(stock)
    \/ \E id \in Ids : toggleTransactionStatus(id)
    \/ handleResetTransactions
    \/ handleUndoDelete

SpecRoundTrip == InitRoundTrip /\ [][NextRoundTrip]_vars

\* C21: a reset followed by an undo is a round trip: the store holds the
\* same transaction records as before the reset, and for every portfolio
\* the history in timestamp order, the position and the realized figures
\* are those of before, though the restored records come last in the
\* stored list.
C21_ResetUndoRoundTrip ==
    OfActive # <<>> =>
        LET r     == ResetResult
            after == Restore(r.transactions, r.backupTransactions)
        IN  /\ Len(after) = Len(transactions)
            /\ SetOf(after) = SetOf(transactions)
            /\ \A symbol \in StockSet :
                   /\ currentTransactionsOf(after, symbol) =
                          currentTransactionsOf(transactions, symbol)
                   /\ PositionOf(after, symbol) =
                          PositionOf(transactions, symbol)
                   /\ StatsById(after, symbol) =
                          StatsById(transactions, symbol)

\* C21 witness: a reset and an undo have left the store out of timestamp
\* order: the restored purchase of one portfolio comes after the later
\* transaction of the other.
C21_Witness ==
    /\ backupTransactions = null
    /\ ~showUndoToast
    /\ \E j, k \in 1..Len(transactions) :
           /\ j < k
           /\ transactions[j].timestamp > transactions[k].timestamp
           /\ transactions[j].symbol # transactions[k].symbol
           /\ Gt(PositionOf(transactions, transactions[k].symbol).totalQuantity,
                 Zero)

\* C22: no transaction is orphaned: every transaction of the store has a
\* symbol of the portfolio list, those restored by an undo included.
C22_NoOrphans ==
    \A i \in 1..Len(transactions) : includes(stockList, transactions[i].symbol)

=============================================================================
